---- MODULE Spec2Model ----
(***************************************************************************)
(* A model of the msg91 client's resource operations that talk to the      *)
(* api.msg91.com endpoints directly: OTPResource.send / verify / resend    *)
(* (src/msg91/resources/otp.py) and SMSResource.send                       *)
(* (src/msg91/resources/sms.py).                                           *)
(*                                                                         *)
(* A call of an operation is two steps around its one blocking point: the  *)
(* first checks the arguments, builds the request and issues it; the       *)
(* second, taken when the transport has produced an outcome (chosen by     *)
(* the environment), classifies the outcome and ends the call.  The state  *)
(* holds the client configuration and the frame of the call in progress:   *)
(* its arguments, the requests it issued, the transport outcomes it saw,   *)
(* the values it returned and the exceptions that escaped it.              *)
(***************************************************************************)
EXTENDS Integers, Sequences, FiniteSets, TLC

VARIABLES
    auth_key,   \* client.http_client.auth_key
    base_url,   \* client.http_client.base_url
    timeout,    \* client.http_client.timeout
    pc,         \* "idle": no call; "waiting": blocked in httpx; "done": call ended
    op,         \* the operation called ("none" when idle)
    args,       \* the arguments of the call
    requests,   \* the HTTP requests the call has issued, in order
    outcomes,   \* the transport outcome of each answered request
    returned,   \* the values the call returned
    raised      \* the exceptions that escaped the call

vars == <<auth_key, base_url, timeout, pc, op, args, requests, outcomes, returned, raised>>

config == <<auth_key, base_url, timeout>>

(***************************************************************************)
(* Python values.  Every value is a tagged record so that values of        *)
(* different Python types can sit in one dict and be compared.             *)
(***************************************************************************)
None == [t |-> "none", s |-> "", n |-> 0]

PyStr(s) == [t |-> "str", s |-> s, n |-> 0]

PyInt(n) == [t |-> "int", s |-> "", n |-> n]

PyBool(b) == [t |-> "bool", s |-> "", n |-> IF b THEN 1 ELSE 0]

\* A list of strings (the list form of a `mobile` argument).
List(l) == [t |-> "list", l |-> l]

\* A dict with string keys: a function from its keys to values.
EmptyDict == [k \in {} |-> None]

Dict(d) == [t |-> "dict", d |-> d]

\* A JSON array (its elements are not inspected by the code).
JsonList == [t |-> "list", l |-> << >>]

\* Python truthiness, as used by `if message:`, `if otp_length:` ...
Truthy(v) ==
    CASE v.t = "none" -> FALSE
      [] v.t = "str"  -> v.s # ""
      [] v.t = "int"  -> v.n # 0
      [] v.t = "bool" -> v.n # 0
      [] v.t = "list" -> v.l # << >>
      [] v.t = "dict" -> DOMAIN v.d # {}
      [] OTHER        -> TRUE

\* isinstance(v, dict)
IsDict(v) == v.t = "dict"

\* d.get(key, default) on a dict value
DictGet(v, key, default) == IF key \in DOMAIN v.d THEN v.d[key] ELSE default

\* params[key] = value
DictSet(d, key, value) == (key :> value) @@ d

\* for key, value in kwargs.items(): params[key] = value
DictUpdate(d, kwargs) == kwargs @@ d

\* str.lower() on the strings that occur in the modelled bodies
Lower(s) ==
    CASE s = "VALIDATION" -> "validation"
      [] s = "Validation" -> "validation"
      [] OTHER            -> s

(***************************************************************************)
(* Client configuration (Client(auth_key, base_url=..., timeout=...)).     *)
(***************************************************************************)
DefaultBaseUrl == "https://control.msg91.com/api/v5"

Configs ==
    { <<"test_auth_key", DefaultBaseUrl, 30>>,
      <<"test_auth_key", "https://custom.msg91.com/api", 30>>,
      <<"test_auth_key", DefaultBaseUrl, 60>>,
      <<"other_auth_key", DefaultBaseUrl, 30>> }

(***************************************************************************)
(* The transport.  httpx.get / httpx.post either raise httpx.RequestError  *)
(* (connection error, timeout, DNS failure) or return a response with a    *)
(* status code and a body text.                                            *)
(***************************************************************************)
Statuses == {200, 204, 302, 400, 401, 500}

\* Mutant of IsSuccess: only status 200 counts as success.
IsSuccess_Only200(status_code) == status_code = 200

\* response.is_success: the status is 2xx
IsSuccess(status_code) == 200 <= status_code /\ status_code <= 299

\* Body texts that are valid JSON, each with the value response.json() gives.
JsonBodies ==
    { <<"{\"type\":\"success\",\"message\":\"abc123\"}",
        Dict(("type" :> PyStr("success")) @@ ("message" :> PyStr("abc123")))>>,
      <<"{\"type\":\"error\",\"message\":\"Server error\"}",
        Dict(("type" :> PyStr("error")) @@ ("message" :> PyStr("Server error")))>>,
      <<"{\"type\":\"validation\",\"message\":\"Invalid OTP\"}",
        Dict(("type" :> PyStr("validation")) @@ ("message" :> PyStr("Invalid OTP")))>>,
      <<"{\"type\":\"VALIDATION\"}",
        Dict("type" :> PyStr("VALIDATION"))>>,
      <<"{\"type\":\"Validation\",\"message\":null}",
        Dict(("type" :> PyStr("Validation")) @@ ("message" :> None))>>,
      <<"{\"message\":\"Invalid authentication key\"}",
        Dict("message" :> PyStr("Invalid authentication key"))>>,
      <<"{}",
        Dict(EmptyDict)>>,
      <<"{\"type\":null,\"message\":\"failed\"}",
        Dict(("type" :> None) @@ ("message" :> PyStr("failed")))>>,
      <<"{\"type\":500}",
        Dict("type" :> PyInt(500))>>,
      <<"[]", JsonList>>,
      <<"null", None>> }

\* Body texts that are not valid JSON.
NonJsonTexts == {"Invalid response", ""}

BodyTexts == {p[1] : p \in JsonBodies} \cup NonJsonTexts

\* The marker for response.json() raising ValueError.
JsonValueError == [t |-> "ValueError"]

\* response.json()
ResponseJson(text) ==
    IF \E p \in JsonBodies : p[1] = text
    THEN (CHOOSE p \in JsonBodies : p[1] = text)[2]
    ELSE JsonValueError

RequestErrorCauses == {"Connection refused", "timed out"}

Response(status_code, text) ==
    [kind |-> "response", status_code |-> status_code, text |-> text, cause |-> ""]

RequestError(cause) ==
    [kind |-> "RequestError", status_code |-> 0, text |-> "", cause |-> cause]

Outcomes ==
    {Response(st, tx) : st \in Statuses, tx \in BodyTexts}
        \cup {RequestError(c) : c \in RequestErrorCauses}

(***************************************************************************)
(* Requests and exceptions.                                                *)
(***************************************************************************)
\* httpx.get(url, params=params, timeout=t)
HttpxGet(url, params, t) ==
    [method |-> "GET", url |-> url, params |-> params, json |-> EmptyDict,
     headers |-> EmptyDict, timeout |-> t]

\* httpx.post(url, json=payload, headers=headers, timeout=t)
HttpxPost(url, payload, headers, t) ==
    [method |-> "POST", url |-> url, params |-> EmptyDict, json |-> payload,
     headers |-> headers, timeout |-> t]

\* An exception object: its class and the arguments it was constructed with.
Exc(type, message, status, details) ==
    [type |-> type, message |-> message, status |-> status, details |-> details]

\* What None.lower() / (500).lower() raise.
AttributeError(v) ==
    Exc("AttributeError",
        PyStr(IF v.t = "none" THEN "'NoneType' object has no attribute 'lower'"
            ELSE "'" \o v.t \o "' object has no attribute 'lower'"),
        None, None)

\* How a call ends: the values it returns and the exceptions that escape it.
Returns(v) == [returned |-> <<v>>, raised |-> << >>]

Raises(e) == [returned |-> << >>, raised |-> <<e>>]

(***************************************************************************)
(* OTPResource.send                                                        *)
(***************************************************************************)
MaxOtpLength == 10

OtpLengths == {None} \cup {PyInt(n) : n \in (0 - 1)..MaxOtpLength}

Kwargs ==
    { EmptyDict,
      ("extra_param" :> PyStr("value")) @@ ("another_param" :> PyStr("another_value")),
      "authkey" :> PyStr("caller_supplied_key") }

OtpSendBase ==
    [mobile |-> PyStr("919999999999"), message |-> None, sender |-> None, otp |-> None,
     otp_expiry |-> None, otp_length |-> None, kwargs |-> EmptyDict]

OtpSendArgs ==
    {[OtpSendBase EXCEPT !.otp_length = l, !.kwargs = k] : l \in OtpLengths, k \in Kwargs}
        \cup {[OtpSendBase EXCEPT !.message = m, !.sender = s, !.otp = o, !.otp_expiry = e] :
                 m \in {None, PyStr("Your OTP is ##OTP##"), PyStr("")},
                 s \in {None, PyStr("MYAPP")},
                 o \in {None, PyStr("1234")},
                 e \in {None, PyInt(5), PyInt(0)}}

\* otp.py 60-62: the local check of otp_length
OtpSendRejects(a) ==
    Truthy(a.otp_length) /\ ~(4 <= a.otp_length.n /\ a.otp_length.n <= 9)

\* Mutant of OtpSendParams: every optional parameter is sent, set or not.
OtpSendParams_Placeholders(key, a) ==
    LET p0 == ("authkey" :> PyStr(key)) @@ ("mobile" :> a.mobile)
                  @@ ("message" :> a.message) @@ ("sender" :> a.sender)
                  @@ ("otp" :> a.otp) @@ ("otp_expiry" :> a.otp_expiry)
                  @@ ("otp_length" :> a.otp_length)
    IN  DictUpdate(p0, a.kwargs)

\* otp.py 43-67: the query parameters
OtpSendParams(key, a) ==
    LET p0 == ("authkey" :> PyStr(key)) @@ ("mobile" :> a.mobile)
        p1 == IF Truthy(a.message) THEN DictSet(p0, "message", a.message) ELSE p0
        p2 == IF Truthy(a.sender) THEN DictSet(p1, "sender", a.sender) ELSE p1
        p3 == IF Truthy(a.otp) THEN DictSet(p2, "otp", a.otp) ELSE p2
        p4 == IF Truthy(a.otp_expiry) THEN DictSet(p3, "otp_expiry", a.otp_expiry) ELSE p3
        p5 == IF Truthy(a.otp_length) THEN DictSet(p4, "otp_length", a.otp_length) ELSE p4
    IN  DictUpdate(p5, a.kwargs)

\* Mutant of OtpSendRequest: the request uses the client's configured timeout.
OtpSendRequest_ClientTimeout(key, a) ==
    HttpxGet("http://api.msg91.com/api/sendotp.php", OtpSendParams(key, a), timeout)

\* otp.py 70: the request
OtpSendRequest(key, a) ==
    HttpxGet("http://api.msg91.com/api/sendotp.php", OtpSendParams(key, a), 30)

\* otp.py 72-108: the classification of a received response
OtpSendClassify(out) ==
    LET json == ResponseJson(out.text)
        response_data == IF json = JsonValueError
                         THEN Dict("raw_content" :> PyStr(out.text))
                         ELSE json
    IN  IF IsSuccess(out.status_code)
        THEN Returns(response_data)
        ELSE
          LET type == IF IsDict(response_data)
                      THEN DictGet(response_data, "type", PyStr(""))
                      ELSE PyStr("")
              message == IF IsDict(response_data)
                         THEN DictGet(response_data, "message", PyStr("OTP sending failed"))
                         ELSE PyStr("OTP sending failed")
          IN  IF type.t # "str"
              THEN Raises(AttributeError(type))
              ELSE
                LET error_type == PyStr(Lower(type.s))
                IN  IF out.status_code = 401
                    THEN Raises(Exc("AuthenticationError", message,
                                    PyInt(out.status_code), response_data))
                    ELSE IF out.status_code = 400 \/ error_type = PyStr("validation")
                    THEN Raises(Exc("ValidationError", message,
                                    PyInt(out.status_code), response_data))
                    ELSE Raises(Exc("APIError", message,
                                    PyInt(out.status_code), response_data))

\* otp.py 69-113: the try block around the request and its classification
OtpSendHandle(out) ==
    IF out.kind = "RequestError"
    THEN Raises(Exc("MSG91Exception", PyStr("Network error: " \o out.cause), None, None))
    ELSE OtpSendClassify(out)

\* OTPResource.send up to its httpx.get call (otp.py 40-70)
OtpSendCall ==
    /\ pc = "idle"
    /\ \E a \in OtpSendArgs :
        /\ op' = "otp.send"
        /\ args' = a
        /\ IF OtpSendRejects(a)
           THEN /\ pc' = "done"
                /\ requests' = << >>
                /\ raised' = <<Exc("ValueError", PyStr("OTP length must be between 4 and 9"),
                                   None, None)>>
           ELSE /\ pc' = "waiting"
                /\ requests' = <<OtpSendRequest(auth_key, a)>>
                /\ raised' = << >>
    /\ UNCHANGED <<config, outcomes, returned>>

\* OTPResource.send from the outcome of httpx.get to its end (otp.py 70-113)
OtpSendComplete ==
    /\ pc = "waiting"
    /\ op = "otp.send"
    /\ \E out \in Outcomes :
        /\ outcomes' = Append(outcomes, out)
        /\ returned' = OtpSendHandle(out).returned
        /\ raised' = OtpSendHandle(out).raised
    /\ pc' = "done"
    /\ UNCHANGED <<config, op, args, requests>>

(***************************************************************************)
(* OTPResource.verify                                                      *)
(***************************************************************************)
OtpVerifyArgs ==
    {[mobile |-> PyStr("919999999999"), otp |-> o, kwargs |-> k] :
        o \in {PyStr("1234"), PyStr("wrong")}, k \in Kwargs}

\* Mutant of OtpVerifyParams: the extra keyword parameters are dropped.
OtpVerifyParams_NoKwargs(key, a) ==
    ("authkey" :> PyStr(key)) @@ ("mobile" :> a.mobile) @@ ("otp" :> a.otp)

\* otp.py 135-143: the query parameters
OtpVerifyParams(key, a) ==
    LET p0 == ("authkey" :> PyStr(key)) @@ ("mobile" :> a.mobile) @@ ("otp" :> a.otp)
    IN  DictUpdate(p0, a.kwargs)

\* otp.py 146: the request
OtpVerifyRequest(key, a) ==
    HttpxGet("http://api.msg91.com/api/verifyRequestOTP.php", OtpVerifyParams(key, a), 30)

\* otp.py 148-184: the classification of a received response
OtpVerifyClassify(out) ==
    LET json == ResponseJson(out.text)
        response_data == IF json = JsonValueError
                         THEN Dict("raw_content" :> PyStr(out.text))
                         ELSE json
    IN  IF IsSuccess(out.status_code)
        THEN Returns(response_data)
        ELSE
          LET type == IF IsDict(response_data)
                      THEN DictGet(response_data, "type", PyStr(""))
                      ELSE PyStr("")
              message == IF IsDict(response_data)
                         THEN DictGet(response_data, "message", PyStr("OTP verification failed"))
                         ELSE PyStr("OTP verification failed")
          IN  IF type.t # "str"
              THEN Raises(AttributeError(type))
              ELSE
                LET error_type == PyStr(Lower(type.s))
                IN  IF out.status_code = 401
                    THEN Raises(Exc("AuthenticationError", message,
                                    PyInt(out.status_code), response_data))
                    ELSE IF out.status_code = 400 \/ error_type = PyStr("validation")
                    THEN Raises(Exc("ValidationError", message,
                                    PyInt(out.status_code), response_data))
                    ELSE Raises(Exc("APIError", message,
                                    PyInt(out.status_code), response_data))

\* otp.py 145-189: the try block around the request and its classification
OtpVerifyHandle(out) ==
    IF out.kind = "RequestError"
    THEN Raises(Exc("MSG91Exception", PyStr("Network error: " \o out.cause), None, None))
    ELSE OtpVerifyClassify(out)

\* OTPResource.verify up to its httpx.get call (otp.py 132-146)
OtpVerifyCall ==
    /\ pc = "idle"
    /\ \E a \in OtpVerifyArgs :
        /\ op' = "otp.verify"
        /\ args' = a
        /\ requests' = <<OtpVerifyRequest(auth_key, a)>>
    /\ pc' = "waiting"
    /\ UNCHANGED <<config, outcomes, returned, raised>>

\* OTPResource.verify from the outcome of httpx.get to its end (otp.py 146-189)
OtpVerifyComplete ==
    /\ pc = "waiting"
    /\ op = "otp.verify"
    /\ \E out \in Outcomes :
        /\ outcomes' = Append(outcomes, out)
        /\ returned' = OtpVerifyHandle(out).returned
        /\ raised' = OtpVerifyHandle(out).raised
    /\ pc' = "done"
    /\ UNCHANGED <<config, op, args, requests>>

(***************************************************************************)
(* OTPResource.resend                                                      *)
(***************************************************************************)
OtpResendArgs ==
    {[mobile |-> PyStr("919999999999"), retrytype |-> r, kwargs |-> k] :
        r \in {PyStr("text"), PyStr("voice"), PyStr("carrier-pigeon")}, k \in Kwargs}

\* otp.py 211-219: the query parameters
OtpResendParams(key, a) ==
    LET p0 == ("authkey" :> PyStr(key)) @@ ("mobile" :> a.mobile)
                  @@ ("retrytype" :> a.retrytype)
    IN  DictUpdate(p0, a.kwargs)

\* otp.py 222: the request
OtpResendRequest(key, a) ==
    HttpxGet("http://api.msg91.com/api/retryotp.php", OtpResendParams(key, a), 30)

\* otp.py 224-260: the classification of a received response
OtpResendClassify(out) ==
    LET json == ResponseJson(out.text)
        response_data == IF json = JsonValueError
                         THEN Dict("raw_content" :> PyStr(out.text))
                         ELSE json
    IN  IF IsSuccess(out.status_code)
        THEN Returns(response_data)
        ELSE
          LET type == IF IsDict(response_data)
                      THEN DictGet(response_data, "type", PyStr(""))
                      ELSE PyStr("")
              message == IF IsDict(response_data)
                         THEN DictGet(response_data, "message", PyStr("OTP resend failed"))
                         ELSE PyStr("OTP resend failed")
          IN  IF type.t # "str"
              THEN Raises(AttributeError(type))
              ELSE
                LET error_type == PyStr(Lower(type.s))
                IN  IF out.status_code = 401
                    THEN Raises(Exc("AuthenticationError", message,
                                    PyInt(out.status_code), response_data))
                    ELSE IF out.status_code = 400 \/ error_type = PyStr("validation")
                    THEN Raises(Exc("ValidationError", message,
                                    PyInt(out.status_code), response_data))
                    ELSE Raises(Exc("APIError", message,
                                    PyInt(out.status_code), response_data))

\* otp.py 221-265: the try block around the request and its classification
OtpResendHandle(out) ==
    IF out.kind = "RequestError"
    THEN Raises(Exc("MSG91Exception", PyStr("Network error: " \o out.cause), None, None))
    ELSE OtpResendClassify(out)

\* OTPResource.resend up to its httpx.get call (otp.py 208-222)
OtpResendCall ==
    /\ pc = "idle"
    /\ \E a \in OtpResendArgs :
        /\ op' = "otp.resend"
        /\ args' = a
        /\ requests' = <<OtpResendRequest(auth_key, a)>>
    /\ pc' = "waiting"
    /\ UNCHANGED <<config, outcomes, returned, raised>>

\* Mutant of OtpResendComplete: a failed transport is tried once more.
OtpResendComplete_Retry ==
    /\ pc = "waiting"
    /\ op = "otp.resend"
    /\ \E out \in Outcomes :
        /\ outcomes' = Append(outcomes, out)
        /\ IF out.kind = "RequestError" /\ Len(requests) < 2
           THEN /\ requests' = Append(requests, requests[1])
                /\ pc' = "waiting"
                /\ UNCHANGED <<returned, raised>>
           ELSE /\ requests' = requests
                /\ pc' = "done"
                /\ returned' = OtpResendHandle(out).returned
                /\ raised' = OtpResendHandle(out).raised
    /\ UNCHANGED <<config, op, args>>

\* OTPResource.resend from the outcome of httpx.get to its end (otp.py 222-265)
OtpResendComplete ==
    /\ pc = "waiting"
    /\ op = "otp.resend"
    /\ \E out \in Outcomes :
        /\ outcomes' = Append(outcomes, out)
        /\ returned' = OtpResendHandle(out).returned
        /\ raised' = OtpResendHandle(out).raised
    /\ pc' = "done"
    /\ UNCHANGED <<config, op, args, requests>>

(***************************************************************************)
(* SMSResource.send                                                        *)
(***************************************************************************)
MaxMobiles == 2

Mobiles == {"919000000001", "919000000002"}

\* The lists of at most MaxMobiles numbers
MobileLists == UNION {[1..n -> Mobiles] : n \in 0..MaxMobiles}

SmsKwargs == Kwargs \cup {"mobiles" :> PyStr("910000000000")}

SmsSendBase ==
    [mobile |-> PyStr("919XXXXXXXX"), message |-> PyStr("Test SMS message"),
     sender |-> PyStr("SENDER"), route |-> PyStr("4"), country |-> None, flash |-> None,
     unicode |-> None, scheduled_datetime |-> None, campaign |-> None,
     kwargs |-> EmptyDict]

SmsSendArgs ==
    {[SmsSendBase EXCEPT !.mobile = m, !.kwargs = k] :
        m \in {PyStr("919XXXXXXXX")} \cup {List(l) : l \in MobileLists}, k \in SmsKwargs}
        \cup {[SmsSendBase EXCEPT !.flash = f, !.unicode = u] :
                 f \in {None, PyBool(TRUE), PyBool(FALSE)},
                 u \in {None, PyBool(TRUE), PyBool(FALSE)}}
        \cup {[SmsSendBase EXCEPT !.route = r, !.country = c, !.scheduled_datetime = d,
                                  !.campaign = g] :
                 r \in {PyStr("4"), PyStr("1")},
                 c \in {None, PyStr("91")},
                 d \in {None, PyStr("2024-01-01 10:00:00"), PyStr("")},
                 g \in {None, PyStr("launch")}}

\* ",".join(l)
RECURSIVE Join(_)
Join(l) ==
    IF l = << >> THEN ""
    ELSE IF Len(l) = 1 THEN l[1]
    ELSE l[1] \o "," \o Join(Tail(l))

\* sms.py 49-52: the mobile numbers as one string
SmsMobileStr(mobile) ==
    IF mobile.t = "list" THEN PyStr(Join(mobile.l)) ELSE mobile

\* sms.py 55-81: the JSON payload
SmsSendPayload(key, a) ==
    LET p0 == ("authkey" :> PyStr(key)) @@ ("mobiles" :> SmsMobileStr(a.mobile))
                  @@ ("message" :> a.message) @@ ("sender" :> a.sender)
                  @@ ("route" :> a.route) @@ ("response" :> PyStr("json"))
        p1 == IF a.country # None THEN DictSet(p0, "country", a.country) ELSE p0
        p2 == IF a.flash # None
              THEN DictSet(p1, "flash", IF Truthy(a.flash) THEN PyStr("1") ELSE PyStr("0"))
              ELSE p1
        p3 == IF a.unicode # None
              THEN DictSet(p2, "unicode", IF Truthy(a.unicode) THEN PyStr("1") ELSE PyStr("0"))
              ELSE p2
        p4 == IF Truthy(a.scheduled_datetime)
              THEN DictSet(p3, "scheduledatetime", a.scheduled_datetime)
              ELSE p3
        p5 == IF Truthy(a.campaign) THEN DictSet(p4, "campaign", a.campaign) ELSE p4
    IN  DictUpdate(p5, a.kwargs)

\* sms.py 84-87: the headers
SmsSendHeaders(key) ==
    ("Content-Type" :> PyStr("application/json")) @@ ("authkey" :> PyStr(key))

\* sms.py 90: the request
SmsSendRequest(key, a) ==
    HttpxPost("http://api.msg91.com/api/v2/sendsms", SmsSendPayload(key, a),
              SmsSendHeaders(key), 30)

\* Mutant of SmsSendClassify: the 400/validation check comes before the 401 check.
SmsSendClassify_ValidationFirst(out) ==
    LET json == ResponseJson(out.text)
        response_data == IF json = JsonValueError
                         THEN Dict("raw_content" :> PyStr(out.text))
                         ELSE json
    IN  IF IsSuccess(out.status_code)
        THEN Returns(response_data)
        ELSE
          LET type == IF IsDict(response_data)
                      THEN DictGet(response_data, "type", PyStr(""))
                      ELSE PyStr("")
              message == IF IsDict(response_data)
                         THEN DictGet(response_data, "message", PyStr("SMS sending failed"))
                         ELSE PyStr("SMS sending failed")
          IN  IF type.t # "str"
              THEN Raises(AttributeError(type))
              ELSE
                LET error_type == PyStr(Lower(type.s))
                IN  IF out.status_code = 400 \/ error_type = PyStr("validation")
                    THEN Raises(Exc("ValidationError", message,
                                    PyInt(out.status_code), response_data))
                    ELSE IF out.status_code = 401
                    THEN Raises(Exc("AuthenticationError", message,
                                    PyInt(out.status_code), response_data))
                    ELSE Raises(Exc("APIError", message,
                                    PyInt(out.status_code), response_data))

\* sms.py 92-128: the classification of a received response
SmsSendClassify(out) ==
    LET json == ResponseJson(out.text)
        response_data == IF json = JsonValueError
                         THEN Dict("raw_content" :> PyStr(out.text))
                         ELSE json
    IN  IF IsSuccess(out.status_code)
        THEN Returns(response_data)
        ELSE
          LET type == IF IsDict(response_data)
                      THEN DictGet(response_data, "type", PyStr(""))
                      ELSE PyStr("")
              message == IF IsDict(response_data)
                         THEN DictGet(response_data, "message", PyStr("SMS sending failed"))
                         ELSE PyStr("SMS sending failed")
          IN  IF type.t # "str"
              THEN Raises(AttributeError(type))
              ELSE
                LET error_type == PyStr(Lower(type.s))
                IN  IF out.status_code = 401
                    THEN Raises(Exc("AuthenticationError", message,
                                    PyInt(out.status_code), response_data))
                    ELSE IF out.status_code = 400 \/ error_type = PyStr("validation")
                    THEN Raises(Exc("ValidationError", message,
                                    PyInt(out.status_code), response_data))
                    ELSE Raises(Exc("APIError", message,
                                    PyInt(out.status_code), response_data))

\* Mutant of SmsSendHandle: a transport failure is raised as an APIError.
SmsSendHandle_TransportAsAPIError(out) ==
    IF out.kind = "RequestError"
    THEN Raises(Exc("APIError", PyStr("Network error: " \o out.cause), None, None))
    ELSE SmsSendClassify(out)

\* sms.py 89-133: the try block around the request and its classification
SmsSendHandle(out) ==
    IF out.kind = "RequestError"
    THEN Raises(Exc("MSG91Exception", PyStr("Network error: " \o out.cause), None, None))
    ELSE SmsSendClassify(out)

\* SMSResource.send up to its httpx.post call (sms.py 46-90)
SmsSendCall ==
    /\ pc = "idle"
    /\ \E a \in SmsSendArgs :
        /\ op' = "sms.send"
        /\ args' = a
        /\ requests' = <<SmsSendRequest(auth_key, a)>>
    /\ pc' = "waiting"
    /\ UNCHANGED <<config, outcomes, returned, raised>>

\* SMSResource.send from the outcome of httpx.post to its end (sms.py 90-133)
SmsSendComplete ==
    /\ pc = "waiting"
    /\ op = "sms.send"
    /\ \E out \in Outcomes :
        /\ outcomes' = Append(outcomes, out)
        /\ returned' = SmsSendHandle(out).returned
        /\ raised' = SmsSendHandle(out).raised
    /\ pc' = "done"
    /\ UNCHANGED <<config, op, args, requests>>

(***************************************************************************)
(* The specification.                                                      *)
(***************************************************************************)
Init ==
    /\ \E c \in Configs :
           /\ auth_key = c[1]
           /\ base_url = c[2]
           /\ timeout = c[3]
    /\ pc = "idle"
    /\ op = "none"
    /\ args = EmptyDict
    /\ requests = << >>
    /\ outcomes = << >>
    /\ returned = << >>
    /\ raised = << >>

\* The call's frame is dropped; the client is ready for its next call.
Finish ==
    /\ pc = "done"
    /\ pc' = "idle"
    /\ op' = "none"
    /\ args' = EmptyDict
    /\ requests' = << >>
    /\ outcomes' = << >>
    /\ returned' = << >>
    /\ raised' = << >>
    /\ UNCHANGED config

Next ==
    \/ OtpSendCall
    \/ OtpSendComplete
    \/ OtpVerifyCall
    \/ OtpVerifyComplete
    \/ OtpResendCall
    \/ OtpResendComplete
    \/ SmsSendCall
    \/ SmsSendComplete
    \/ Finish

Spec == Init /\ [][Next]_vars

(***************************************************************************)
(* The operations of SMSResource that go through the client's shared HTTP  *)
(* client: send_template, get_logs and get_analytics.  They build their    *)
(* payload themselves and hand it to http_client.post / http_client.get.   *)
(* The shared HTTP client is described in the design as: the request goes  *)
(* to the endpoint relative to the base URL, with the key in a header and  *)
(* the client's timeout, and the outcome is classified by the common       *)
(* policy.                                                                 *)
(***************************************************************************)
\* http_client.post(endpoint, json_data=payload)
HttpClientPost(c, endpoint, json_data) ==
    HttpxPost(c[2] \o "/" \o endpoint, json_data, "authkey" :> PyStr(c[1]), c[3])

\* http_client.get(endpoint, params=params)
HttpClientGet(c, endpoint, params) ==
    [HttpxGet(c[2] \o "/" \o endpoint, params, c[3])
        EXCEPT !.headers = "authkey" :> PyStr(c[1])]

\* The common classification policy, applied by the shared HTTP client.
HttpClientHandle(out) ==
    IF out.kind = "RequestError"
    THEN Raises(Exc("MSG91Exception", PyStr("Network error: " \o out.cause), None, None))
    ELSE
      LET json == ResponseJson(out.text)
          response_data == IF json = JsonValueError
                           THEN Dict("raw_content" :> PyStr(out.text))
                           ELSE json
          type == IF IsDict(response_data)
                  THEN DictGet(response_data, "type", PyStr(""))
                  ELSE PyStr("")
          error_type == IF type.t = "str" THEN Lower(type.s) ELSE ""
          message == IF IsDict(response_data)
                     THEN DictGet(response_data, "message", PyStr("API request failed"))
                     ELSE PyStr("API request failed")
      IN  IF IsSuccess(out.status_code)
          THEN Returns(response_data)
          ELSE IF out.status_code = 401
          THEN Raises(Exc("AuthenticationError", message,
                          PyInt(out.status_code), response_data))
          ELSE IF out.status_code = 400 \/ error_type = "validation"
          THEN Raises(Exc("ValidationError", message,
                          PyInt(out.status_code), response_data))
          ELSE Raises(Exc("APIError", message, PyInt(out.status_code), response_data))

SharedClientOps == {"sms.send_template", "sms.get_logs", "sms.get_analytics"}

\* The call of a shared-client operation ends with the classified outcome.
HttpClientComplete ==
    /\ pc = "waiting"
    /\ op \in SharedClientOps
    /\ \E out \in Outcomes :
        /\ outcomes' = Append(outcomes, out)
        /\ returned' = HttpClientHandle(out).returned
        /\ raised' = HttpClientHandle(out).raised
    /\ pc' = "done"
    /\ UNCHANGED <<config, op, args, requests>>

(***************************************************************************)
(* SMSResource.send_template                                               *)
(***************************************************************************)
TemplateVariables == {None, Dict(EmptyDict), Dict("name" :> PyStr("John"))}

TemplateKwargs ==
    Kwargs \cup {"recipients" :> List(<< >>), "sender" :> PyStr("OTHERS")}

SmsSendTemplateBase ==
    [template_id |-> PyStr("template_id_123"), mobile |-> PyStr("919XXXXXXXX"),
     variables |-> None, sender_id |-> None, short_url |-> None, kwargs |-> EmptyDict]

SmsSendTemplateArgs ==
    {[SmsSendTemplateBase EXCEPT !.mobile = m, !.variables = v] :
        m \in {PyStr("919XXXXXXXX")} \cup {List(l) : l \in MobileLists},
        v \in TemplateVariables}
        \cup {[SmsSendTemplateBase EXCEPT !.sender_id = s, !.short_url = u] :
                 s \in {None, PyStr("SENDER"), PyStr("")},
                 u \in {None, PyBool(TRUE), PyBool(FALSE)}}
        \cup {[SmsSendTemplateBase EXCEPT !.kwargs = k, !.variables = v] :
                 k \in TemplateKwargs, v \in TemplateVariables}

\* Mutant of FormatRecipients: only the first recipient gets the variables.
FormatRecipients_VariablesOnFirst(mobile, variables) ==
    LET numbers == IF mobile.t = "str" THEN <<mobile>>
                   ELSE [i \in 1..Len(mobile.l) |-> PyStr(mobile.l[i])]
    IN  List([i \in 1..Len(numbers) |->
                 IF Truthy(variables) /\ i = 1
                 THEN Dict(("mobile" :> numbers[i]) @@ ("variables" :> variables))
                 ELSE Dict("mobile" :> numbers[i])])

\* sms.py 174-188: SMSResource._format_recipients
FormatRecipients(mobile, variables) ==
    LET numbers == IF mobile.t = "str" THEN <<mobile>>
                   ELSE [i \in 1..Len(mobile.l) |-> PyStr(mobile.l[i])]
    IN  List([i \in 1..Len(numbers) |->
                 IF Truthy(variables)
                 THEN Dict(("mobile" :> numbers[i]) @@ ("variables" :> variables))
                 ELSE Dict("mobile" :> numbers[i])])

\* sms.py 157-170: the JSON payload
SmsSendTemplatePayload(a) ==
    LET p0 == ("template_id" :> a.template_id)
                  @@ ("recipients" :> FormatRecipients(a.mobile, a.variables))
        p1 == IF Truthy(a.sender_id) THEN DictSet(p0, "sender", a.sender_id) ELSE p0
        p2 == IF a.short_url # None
              THEN DictSet(p1, "short_url",
                           IF Truthy(a.short_url) THEN PyStr("1") ELSE PyStr("0"))
              ELSE p1
    IN  DictUpdate(p2, a.kwargs)

\* SMSResource.send_template up to the request of the shared client (sms.py 157-172)
SmsSendTemplateCall ==
    /\ pc = "idle"
    /\ \E a \in SmsSendTemplateArgs :
        /\ op' = "sms.send_template"
        /\ args' = a
        /\ requests' = <<HttpClientPost(config, "flow", SmsSendTemplatePayload(a))>>
    /\ pc' = "waiting"
    /\ UNCHANGED <<config, outcomes, returned, raised>>

(***************************************************************************)
(* SMSResource.get_logs and SMSResource.get_analytics                      *)
(***************************************************************************)
SmsReportArgs ==
    {[start_date |-> b, end_date |-> e, kwargs |-> k] :
        b \in {None, PyStr("2024-01-01"), PyStr("")},
        e \in {None, PyStr("2024-01-31")},
        k \in Kwargs \cup {"start_date_format" :> PyStr("iso")}}

\* sms.py 206-216 (get_logs) and 236-246 (get_analytics): the filters
SmsGetLogsPayload(a) ==
    LET p0 == EmptyDict
        p1 == IF Truthy(a.start_date) THEN DictSet(p0, "start_date", a.start_date) ELSE p0
        p2 == IF Truthy(a.end_date) THEN DictSet(p1, "end_date", a.end_date) ELSE p1
    IN  DictUpdate(p2, a.kwargs)

SmsGetAnalyticsParams(a) ==
    LET p0 == EmptyDict
        p1 == IF Truthy(a.start_date) THEN DictSet(p0, "start_date", a.start_date) ELSE p0
        p2 == IF Truthy(a.end_date) THEN DictSet(p1, "end_date", a.end_date) ELSE p1
    IN  DictUpdate(p2, a.kwargs)

\* SMSResource.get_logs up to the request of the shared client (sms.py 206-218)
SmsGetLogsCall ==
    /\ pc = "idle"
    /\ \E a \in SmsReportArgs :
        /\ op' = "sms.get_logs"
        /\ args' = a
        /\ requests' = <<HttpClientPost(config, "report/logs/p/sms", SmsGetLogsPayload(a))>>
    /\ pc' = "waiting"
    /\ UNCHANGED <<config, outcomes, returned, raised>>

\* SMSResource.get_analytics up to the request of the shared client (sms.py 236-248)
SmsGetAnalyticsCall ==
    /\ pc = "idle"
    /\ \E a \in SmsReportArgs :
        /\ op' = "sms.get_analytics"
        /\ args' = a
        /\ requests' = <<HttpClientGet(config, "report/analytics/p/sms",
                                       SmsGetAnalyticsParams(a))>>
    /\ pc' = "waiting"
    /\ UNCHANGED <<config, outcomes, returned, raised>>

\* All seven operations.
NextAll ==
    \/ Next
    \/ SmsSendTemplateCall
    \/ SmsGetLogsCall
    \/ SmsGetAnalyticsCall
    \/ HttpClientComplete

SpecAll == Init /\ [][NextAll]_vars

(***************************************************************************)
(* Several threads calling operations on one client.  The variables that   *)
(* hold the frame of a call hold one frame per thread here (pc[t], op[t],  *)
(* args[t], ...); the configuration is the one client's.  A frame is made  *)
(* of the locals of the call (params, payload, headers, response,          *)
(* response_data), and the only thing a call reads outside its frame is    *)
(* self.http_client.auth_key.                                              *)
(***************************************************************************)
NumThreads == 2

Threads == 1..NumThreads

\* The calls the threads make.
ThreadCalls ==
    { <<"otp.send", OtpSendBase>>,
      <<"otp.send", [OtpSendBase EXCEPT !.otp_length = PyInt(3)]>>,
      <<"otp.verify", [mobile |-> PyStr("919999999999"), otp |-> PyStr("1234"),
                       kwargs |-> EmptyDict]>>,
      <<"sms.send", [SmsSendBase EXCEPT
                        !.mobile = List(<<"919000000001", "919000000002">>)]>> }

\* The outcomes their requests meet.
ThreadOutcomes ==
    { Response(200, "{\"type\":\"success\",\"message\":\"abc123\"}"),
      Response(401, "{\"type\":\"validation\",\"message\":\"Invalid OTP\"}"),
      RequestError("timed out") }

\* The local argument check, the request and the handling of each operation.
RejectsOf(o, a) == o = "otp.send" /\ OtpSendRejects(a)

RequestOf(o, key, a) ==
    CASE o = "otp.send"   -> OtpSendRequest(key, a)
      [] o = "otp.verify" -> OtpVerifyRequest(key, a)
      [] o = "otp.resend" -> OtpResendRequest(key, a)
      [] o = "sms.send"   -> SmsSendRequest(key, a)

HandleOf(o, out) ==
    CASE o = "otp.send"   -> OtpSendHandle(out)
      [] o = "otp.verify" -> OtpVerifyHandle(out)
      [] o = "otp.resend" -> OtpResendHandle(out)
      [] o = "sms.send"   -> SmsSendHandle(out)

InitThreads ==
    /\ \E c \in Configs :
           /\ auth_key = c[1]
           /\ base_url = c[2]
           /\ timeout = c[3]
    /\ pc = [t \in Threads |-> "idle"]
    /\ op = [t \in Threads |-> "none"]
    /\ args = [t \in Threads |-> EmptyDict]
    /\ requests = [t \in Threads |-> << >>]
    /\ outcomes = [t \in Threads |-> << >>]
    /\ returned = [t \in Threads |-> << >>]
    /\ raised = [t \in Threads |-> << >>]

\* Mutant of ThreadCall: the request descriptor is kept in one place shared
\* by all calls, so building it replaces the one a blocked call has issued.
ThreadCall_SharedDescriptor(t) ==
    /\ pc[t] = "idle"
    /\ \E call \in ThreadCalls :
        /\ op' = [op EXCEPT ![t] = call[1]]
        /\ args' = [args EXCEPT ![t] = call[2]]
        /\ IF RejectsOf(call[1], call[2])
           THEN /\ pc' = [pc EXCEPT ![t] = "done"]
                /\ requests' = requests
                /\ raised' = [raised EXCEPT ![t] =
                                 <<Exc("ValueError",
                                       PyStr("OTP length must be between 4 and 9"),
                                       None, None)>>]
           ELSE /\ pc' = [pc EXCEPT ![t] = "waiting"]
                /\ requests' = [u \in Threads |->
                                   IF u = t \/ pc[u] = "waiting"
                                   THEN <<RequestOf(call[1], auth_key, call[2])>>
                                   ELSE requests[u]]
                /\ raised' = raised
    /\ UNCHANGED <<config, outcomes, returned>>

\* Thread t calls an operation, up to its httpx call.
ThreadCall(t) ==
    /\ pc[t] = "idle"
    /\ \E call \in ThreadCalls :
        /\ op' = [op EXCEPT ![t] = call[1]]
        /\ args' = [args EXCEPT ![t] = call[2]]
        /\ IF RejectsOf(call[1], call[2])
           THEN /\ pc' = [pc EXCEPT ![t] = "done"]
                /\ requests' = requests
                /\ raised' = [raised EXCEPT ![t] =
                                 <<Exc("ValueError",
                                       PyStr("OTP length must be between 4 and 9"),
                                       None, None)>>]
           ELSE /\ pc' = [pc EXCEPT ![t] = "waiting"]
                /\ requests' = [requests EXCEPT
                                   ![t] = <<RequestOf(call[1], auth_key, call[2])>>]
                /\ raised' = raised
    /\ UNCHANGED <<config, outcomes, returned>>

\* The httpx call of thread t comes back and the call of t ends.
ThreadComplete(t) ==
    /\ pc[t] = "waiting"
    /\ \E out \in ThreadOutcomes :
        /\ outcomes' = [outcomes EXCEPT ![t] = Append(outcomes[t], out)]
        /\ returned' = [returned EXCEPT ![t] = HandleOf(op[t], out).returned]
        /\ raised' = [raised EXCEPT ![t] = HandleOf(op[t], out).raised]
    /\ pc' = [pc EXCEPT ![t] = "done"]
    /\ UNCHANGED <<config, op, args, requests>>

\* The frame of the ended call of thread t is dropped.
ThreadFinish(t) ==
    /\ pc[t] = "done"
    /\ pc' = [pc EXCEPT ![t] = "idle"]
    /\ op' = [op EXCEPT ![t] = "none"]
    /\ args' = [args EXCEPT ![t] = EmptyDict]
    /\ requests' = [requests EXCEPT ![t] = << >>]
    /\ outcomes' = [outcomes EXCEPT ![t] = << >>]
    /\ returned' = [returned EXCEPT ![t] = << >>]
    /\ raised' = [raised EXCEPT ![t] = << >>]
    /\ UNCHANGED config

NextThreads ==
    \E t \in Threads :
        \/ ThreadCall(t)
        \/ ThreadComplete(t)
        \/ ThreadFinish(t)

SpecThreads == InitThreads /\ [][NextThreads]_vars

(***************************************************************************)
(* Vocabulary of the properties.                                           *)
(***************************************************************************)
\* The call in progress has ended.
Ended == pc = "done"

\* The call in progress has ended after its request was answered by `out`.
Answered(out) == pc = "done" /\ outcomes = <<out>>

\* The exception classes a caller is promised: InvalidArgument is Python's
\* ValueError and TransportError is the bare MSG91Exception.
ClassifiedErrors ==
    {"ValueError", "AuthenticationError", "ValidationError", "APIError", "MSG91Exception"}

\* The fixed default message of each operation.
DefaultMessage(o) ==
    CASE o = "otp.send"   -> PyStr("OTP sending failed")
      [] o = "otp.verify" -> PyStr("OTP verification failed")
      [] o = "otp.resend" -> PyStr("OTP resend failed")
      [] o = "sms.send"   -> PyStr("SMS sending failed")

\* The envelope of a body text: the parsed body, or the raw-text wrapper.
Envelope(text) ==
    IF ResponseJson(text) = JsonValueError
    THEN Dict("raw_content" :> PyStr(text))
    ELSE ResponseJson(text)

\* The body is a JSON mapping that has the field.
HasField(text, field) ==
    /\ ResponseJson(text) # JsonValueError
    /\ ResponseJson(text).t = "dict"
    /\ field \in DOMAIN ResponseJson(text).d

\* The message an error for this body is to carry.
ExpectedMessage(o, text) ==
    IF HasField(text, "message") THEN ResponseJson(text).d["message"] ELSE DefaultMessage(o)

\* The body's 'type' field equals "validation", compared case-insensitively.
ValidationMarked(text) ==
    /\ HasField(text, "type")
    /\ ResponseJson(text).d["type"].t = "str"
    /\ ResponseJson(text).d["type"].s \in {"validation", "VALIDATION", "Validation"}

(***************************************************************************)
(* C1.  Every call ends in exactly one of two ways: it returns one         *)
(* envelope, or it raises exactly one error of the classified set; never   *)
(* both, never neither, and no unclassified failure escapes.               *)
(***************************************************************************)
C1_OneClassifiedEnd ==
    Ended =>
        /\ Len(returned) + Len(raised) = 1
        /\ \A i \in DOMAIN raised : raised[i].type \in ClassifiedErrors

(***************************************************************************)
(* C2.  A response with status 401, whatever its body, makes the call fail *)
(* with AuthenticationError carrying status 401 and the body's 'message'   *)
(* field, or the operation's default message when the body has none.       *)
(***************************************************************************)
C2_Status401IsAuthentication ==
    \A out \in Outcomes :
        (Answered(out) /\ out.kind = "response" /\ out.status_code = 401) =>
            /\ returned = << >>
            /\ raised = <<Exc("AuthenticationError", ExpectedMessage(op, out.text),
                              PyInt(401), Envelope(out.text))>>

(***************************************************************************)
(* C3.  A response with status 400, and a failing (non-2xx) response other *)
(* than a 401 whose body's 'type' field equals "validation" whatever its   *)
(* case, makes the call fail with ValidationError carrying the response's  *)
(* status.                                                                 *)
(***************************************************************************)
C3_ValidationErrors ==
    \A out \in Outcomes :
        ( /\ Answered(out)
          /\ out.kind = "response"
          /\ \/ out.status_code = 400
             \/ /\ ~(200 <= out.status_code /\ out.status_code <= 299)
                /\ out.status_code # 401
                /\ ValidationMarked(out.text) ) =>
            /\ returned = << >>
            /\ Len(raised) = 1
            /\ raised[1].type = "ValidationError"
            /\ raised[1].status = PyInt(out.status_code)

(***************************************************************************)
(* C4.  A failing (non-2xx) response whose status is neither 401 nor 400   *)
(* and whose body's 'type' field is not "validation" makes the call fail   *)
(* with APIError carrying the response's status and the body as details.   *)
(***************************************************************************)
C4_OtherFailuresAreAPIError ==
    \A out \in Outcomes :
        ( /\ Answered(out)
          /\ out.kind = "response"
          /\ ~(200 <= out.status_code /\ out.status_code <= 299)
          /\ out.status_code \notin {400, 401}
          /\ ~ValidationMarked(out.text) ) =>
            /\ returned = << >>
            /\ Len(raised) = 1
            /\ raised[1].type = "APIError"
            /\ raised[1].status = PyInt(out.status_code)
            /\ raised[1].details = Envelope(out.text)

(***************************************************************************)
(* C5.  A successful (2xx) response makes the call raise nothing and       *)
(* return the envelope unchanged: the parsed body when the body is valid   *)
(* JSON, whatever its fields say, and {raw_content: body text} otherwise.  *)
(***************************************************************************)
C5_SuccessReturnsEnvelope ==
    \A out \in Outcomes :
        ( /\ Answered(out)
          /\ out.kind = "response"
          /\ 200 <= out.status_code /\ out.status_code <= 299 ) =>
            /\ raised = << >>
            /\ returned = <<IF \E p \in JsonBodies : p[1] = out.text
                            THEN (CHOOSE p \in JsonBodies : p[1] = out.text)[2]
                            ELSE Dict("raw_content" :> PyStr(out.text))>>

\* A 2xx response with a non-JSON body was returned as its raw-text wrapper.
C5_Witness ==
    /\ Answered(Response(200, "Invalid response"))
    /\ op = "otp.send"
    /\ returned = <<Dict("raw_content" :> PyStr("Invalid response"))>>
    /\ raised = << >>

(***************************************************************************)
(* C6.  otp.send with an otp_length that is provided and outside [4, 9]    *)
(* fails with InvalidArgument and issues no request; with an otp_length in *)
(* 4..9 it issues its request, whose query parameters hold otp_length      *)
(* with that value.                                                        *)
(***************************************************************************)
C6_OtpLengthChecked ==
    (op = "otp.send" /\ args.otp_length # None) =>
        IF 4 <= args.otp_length.n /\ args.otp_length.n <= 9
        THEN /\ Len(requests) = 1
             /\ "otp_length" \in DOMAIN requests[1].params
             /\ requests[1].params["otp_length"] = args.otp_length
        ELSE /\ requests = << >>
             /\ Ended
             /\ returned = << >>
             /\ Len(raised) = 1
             /\ raised[1].type = "ValueError"

(***************************************************************************)
(* C7.  When the transport fails before any response is received, the call *)
(* raises TransportError (the bare MSG91Exception) wrapping the cause's    *)
(* message and carrying no status; it is not an APIError,                  *)
(* AuthenticationError or ValidationError, and nothing is returned.        *)
(***************************************************************************)
C7_TransportFailure ==
    \A out \in Outcomes :
        (Answered(out) /\ out.kind = "RequestError") =>
            /\ returned = << >>
            /\ raised = <<Exc("MSG91Exception", PyStr("Network error: " \o out.cause),
                              None, None)>>
            /\ raised[1].type \notin {"APIError", "AuthenticationError", "ValidationError"}

\* sms.send ended with the transport error of a timed-out request.
C7_Witness ==
    /\ Answered(RequestError("timed out"))
    /\ op = "sms.send"
    /\ Len(raised) = 1
    /\ raised[1].type = "MSG91Exception"
    /\ raised[1].message = PyStr("Network error: timed out")

(***************************************************************************)
(* C8.  No operation retries: a call that passes its local argument checks *)
(* issues exactly one request, and when that request has failed the call   *)
(* ends with its error and has issued no further request.                  *)
(***************************************************************************)
C8_NoRetry ==
    /\ Len(requests) <= 1
    /\ Len(outcomes) <= Len(requests)
    /\ pc = "waiting" => (Len(requests) = 1 /\ outcomes = << >>)
    /\ (Ended /\ ~(Len(raised) = 1 /\ raised[1].type = "ValueError")) =>
           (Len(requests) = 1 /\ Len(outcomes) = 1)
    /\ \A out \in Outcomes :
           ( /\ outcomes # << >>
             /\ outcomes[1] = out
             /\ \/ out.kind = "RequestError"
                \/ ~(200 <= out.status_code /\ out.status_code <= 299) ) =>
               (Ended /\ Len(raised) = 1 /\ Len(requests) = 1)

\* otp.resend ended with an error after its one request met a server error.
C8_Witness ==
    /\ Ended
    /\ op = "otp.resend"
    /\ Len(outcomes) = 1
    /\ outcomes[1].kind = "response"
    /\ outcomes[1].status_code = 500
    /\ Len(requests) = 1
    /\ Len(raised) = 1

(***************************************************************************)
(* C9.  The classification is the same in otp.send, otp.verify, otp.resend *)
(* and sms.send: for every outcome each of the four gives what the call    *)
(* that met the outcome gave -- the same returned envelope, the same error *)
(* class, status and details -- and the same message, except that where    *)
(* the body carries no 'message' field each gives its own default.         *)
(***************************************************************************)
SameEnd(o, r) ==
    /\ r.returned = returned
    /\ Len(r.raised) = Len(raised)
    /\ \A i \in DOMAIN raised :
           /\ r.raised[i].type = raised[i].type
           /\ r.raised[i].status = raised[i].status
           /\ r.raised[i].details = raised[i].details
           /\ \/ r.raised[i].message = raised[i].message
              \/ /\ r.raised[i].message = DefaultMessage(o)
                 /\ raised[i].message = DefaultMessage(op)
                 /\ ~HasField(outcomes[1].text, "message")

C9_SamePolicyEverywhere ==
    \A out \in Outcomes :
        Answered(out) =>
            /\ SameEnd("otp.send", OtpSendHandle(out))
            /\ SameEnd("otp.verify", OtpVerifyHandle(out))
            /\ SameEnd("otp.resend", OtpResendHandle(out))
            /\ SameEnd("sms.send", SmsSendHandle(out))

\* sms.send met a 401 whose body is marked "validation" and raised the
\* authentication error.
C9_Witness ==
    /\ Answered(Response(401, "{\"type\":\"validation\",\"message\":\"Invalid OTP\"}"))
    /\ op = "sms.send"
    /\ Len(raised) = 1
    /\ raised[1].type = "AuthenticationError"

(***************************************************************************)
(* C10.  Every request carries the key the client was constructed with:    *)
(* the 'authkey' query parameter of the otp requests, and both the         *)
(* 'authkey' header and the 'authkey' field of the JSON body of sms.send,  *)
(* for all arguments including the extra keyword parameters.               *)
(***************************************************************************)
C10_AuthKeyAttached ==
    \A i \in DOMAIN requests :
        IF requests[i].method = "GET"
        THEN /\ "authkey" \in DOMAIN requests[i].params
             /\ requests[i].params["authkey"] = PyStr(auth_key)
        ELSE /\ "authkey" \in DOMAIN requests[i].headers
             /\ requests[i].headers["authkey"] = PyStr(auth_key)
             /\ "authkey" \in DOMAIN requests[i].json
             /\ requests[i].json["authkey"] = PyStr(auth_key)

(***************************************************************************)
(* C12.  In the request of otp.send each optional parameter (message,      *)
(* sender, otp, otp_expiry, otp_length) the caller leaves unset has no key *)
(* in the query parameters, and each one the caller supplies is present    *)
(* with exactly the supplied value.                                        *)
(***************************************************************************)
OtpSendOptional == {"message", "sender", "otp", "otp_expiry", "otp_length"}

C12_OptionalParams ==
    (op = "otp.send" /\ requests # << >>) =>
        \A name \in OtpSendOptional :
            IF args[name] = None
            THEN name \notin DOMAIN requests[1].params
            ELSE /\ name \in DOMAIN requests[1].params
                 /\ requests[1].params[name] = args[name]

(***************************************************************************)
(* C12, amended.  In the request of otp.send each optional parameter that  *)
(* is unset or empty (None, the empty string, 0) has no key in the query   *)
(* parameters, and each one supplied with a non-empty value is present     *)
(* with exactly the supplied value.                                        *)
(***************************************************************************)
C12_OptionalParamsNonEmpty ==
    (op = "otp.send" /\ requests # << >>) =>
        \A name \in OtpSendOptional :
            IF args[name] \in {None, PyStr(""), PyInt(0)}
            THEN name \notin DOMAIN requests[1].params
            ELSE /\ name \in DOMAIN requests[1].params
                 /\ requests[1].params[name] = args[name]

\* otp.send was called with an empty message and an otp: the request holds
\* the otp and no message.
C12_Witness ==
    /\ op = "otp.send"
    /\ Len(requests) = 1
    /\ args.message = PyStr("")
    /\ args.otp = PyStr("1234")
    /\ "message" \notin DOMAIN requests[1].params
    /\ requests[1].params["otp"] = PyStr("1234")
    /\ "sender" \notin DOMAIN requests[1].params

(***************************************************************************)
(* C13.  sms.send given a list of mobile numbers transmits, in the         *)
(* payload's mobiles field, the numbers joined in their order by single    *)
(* commas; given a single string it transmits that string unchanged.       *)
(***************************************************************************)
RECURSIVE CommaJoined(_)
CommaJoined(l) ==
    IF Len(l) = 0 THEN ""
    ELSE IF Len(l) = 1 THEN l[1]
    ELSE CommaJoined(SubSeq(l, 1, Len(l) - 1)) \o "," \o l[Len(l)]

C13_MobilesJoined ==
    (op = "sms.send" /\ requests # << >>) =>
        /\ "mobiles" \in DOMAIN requests[1].json
        /\ requests[1].json["mobiles"] =
               IF args.mobile.t = "list" THEN PyStr(CommaJoined(args.mobile.l))
               ELSE args.mobile
        /\ args.mobile = List(<<"919000000001", "919000000002">>) =>
               requests[1].json["mobiles"] = PyStr("919000000001,919000000002")

(***************************************************************************)
(* C16.  The requests of otp.send, otp.verify, otp.resend and sms.send do  *)
(* not depend on the client's base URL or timeout: whatever the            *)
(* configuration, each goes to the operation's fixed api.msg91.com         *)
(* endpoint with a timeout of 30, and is determined by the key and the     *)
(* arguments alone.                                                        *)
(***************************************************************************)
FixedEndpoint(o) ==
    CASE o = "otp.send"   -> "http://api.msg91.com/api/sendotp.php"
      [] o = "otp.verify" -> "http://api.msg91.com/api/verifyRequestOTP.php"
      [] o = "otp.resend" -> "http://api.msg91.com/api/retryotp.php"
      [] o = "sms.send"   -> "http://api.msg91.com/api/v2/sendsms"

DirectOps == {"otp.send", "otp.verify", "otp.resend", "sms.send"}

C16_RequestsIgnoreBaseUrlAndTimeout ==
    op \in DirectOps =>
        \A i \in DOMAIN requests :
            /\ requests[i].url = FixedEndpoint(op)
            /\ requests[i].timeout = 30
            /\ requests[i] =
                   CASE op = "otp.send"   -> OtpSendRequest(auth_key, args)
                     [] op = "otp.verify" -> OtpVerifyRequest(auth_key, args)
                     [] op = "otp.resend" -> OtpResendRequest(auth_key, args)
                     [] op = "sms.send"   -> SmsSendRequest(auth_key, args)

\* A client configured with a timeout of 60 issued the otp.send request
\* with a timeout of 30.
C16_Witness ==
    /\ timeout = 60
    /\ op = "otp.send"
    /\ Len(requests) = 1
    /\ requests[1].timeout = 30
    /\ requests[1].url = "http://api.msg91.com/api/sendotp.php"

(***************************************************************************)
(* C11.  Every extra keyword parameter passed to otp.send, otp.verify,     *)
(* otp.resend, sms.send, sms.send_template, sms.get_logs or                *)
(* sms.get_analytics is in the outgoing request (the query parameters of a *)
(* GET, the JSON payload of a POST) under the same key with exactly the    *)
(* value given, in addition to the keys the operation builds itself.       *)
(***************************************************************************)
\* The keys the operation builds by itself from the named arguments.
BuiltKeys(o, a) ==
    CASE o = "otp.send" ->
             {"authkey", "mobile"}
                 \cup {k \in OtpSendOptional : a[k] \notin {None, PyStr(""), PyInt(0)}}
      [] o = "otp.verify" -> {"authkey", "mobile", "otp"}
      [] o = "otp.resend" -> {"authkey", "mobile", "retrytype"}
      [] o = "sms.send" ->
             {"authkey", "mobiles", "message", "sender", "route", "response"}
                 \cup {k \in {"country", "flash", "unicode"} : a[k] # None}
                 \cup (IF a.scheduled_datetime \in {None, PyStr("")} THEN {}
                       ELSE {"scheduledatetime"})
                 \cup (IF a.campaign \in {None, PyStr("")} THEN {} ELSE {"campaign"})
      [] o = "sms.send_template" ->
             {"template_id", "recipients"}
                 \cup (IF a.sender_id \in {None, PyStr("")} THEN {} ELSE {"sender"})
                 \cup (IF a.short_url # None THEN {"short_url"} ELSE {})
      [] o \in {"sms.get_logs", "sms.get_analytics"} ->
             {k \in {"start_date", "end_date"} : a[k] \notin {None, PyStr("")}}

C11_KwargsForwarded ==
    \A i \in DOMAIN requests :
        LET sent == IF requests[i].method = "GET" THEN requests[i].params
                    ELSE requests[i].json
        IN  /\ \A k \in DOMAIN args.kwargs :
                   k \in DOMAIN sent /\ sent[k] = args.kwargs[k]
            /\ DOMAIN sent = BuiltKeys(op, args) \cup DOMAIN args.kwargs

\* sms.get_logs was called with a start date and two extra keyword
\* parameters, and its request's payload holds all three.
C11_Witness ==
    /\ op = "sms.get_logs"
    /\ Len(requests) = 1
    /\ args.kwargs = ("extra_param" :> PyStr("value"))
                         @@ ("another_param" :> PyStr("another_value"))
    /\ args.start_date = PyStr("2024-01-01")
    /\ requests[1].json["extra_param"] = PyStr("value")
    /\ requests[1].json["another_param"] = PyStr("another_value")
    /\ requests[1].json["start_date"] = PyStr("2024-01-01")

(***************************************************************************)
(* C15.  sms.send_template builds a recipients list with exactly one entry *)
(* per target mobile number, in the given order (a single string gives a   *)
(* one-entry list); when variables are provided every entry carries the    *)
(* same variables, and when they are not provided no entry has a           *)
(* 'variables' key.                                                        *)
(***************************************************************************)
\* The target numbers of a `mobile` argument, in order.
TargetNumbers(mobile) ==
    IF mobile.t = "list" THEN mobile.l ELSE <<mobile.s>>

\* The recipients list has one entry per target number, in order, each
\* with the variables when `with` says so and without the key otherwise.
RecipientsAre(r, mobile, variables, with) ==
    /\ r.t = "list"
    /\ Len(r.l) = Len(TargetNumbers(mobile))
    /\ \A i \in 1..Len(r.l) :
           /\ r.l[i].t = "dict"
           /\ r.l[i].d["mobile"] = PyStr(TargetNumbers(mobile)[i])
           /\ IF with
              THEN /\ DOMAIN r.l[i].d = {"mobile", "variables"}
                   /\ r.l[i].d["variables"] = variables
              ELSE DOMAIN r.l[i].d = {"mobile"}

C15_Recipients ==
    op = "sms.send_template" =>
        RecipientsAre(FormatRecipients(args.mobile, args.variables),
                      args.mobile, args.variables, args.variables # None)

(***************************************************************************)
(* C15, amended.  As C15, except that the entries carry the variables when *)
(* variables are provided and not empty, and have no 'variables' key when  *)
(* variables are not provided or are an empty mapping.                     *)
(***************************************************************************)
C15_RecipientsNonEmptyVariables ==
    op = "sms.send_template" =>
        RecipientsAre(FormatRecipients(args.mobile, args.variables),
                      args.mobile, args.variables,
                      args.variables \notin {None, Dict(EmptyDict)})

\* send_template was called for two numbers with variables, and the
\* payload handed to the HTTP client holds two entries with the variables.
C15_Witness ==
    /\ op = "sms.send_template"
    /\ Len(requests) = 1
    /\ args.mobile = List(<<"919000000002", "919000000001">>)
    /\ args.variables = Dict("name" :> PyStr("John"))
    /\ requests[1].json["recipients"] =
           List(<<Dict(("mobile" :> PyStr("919000000002"))
                           @@ ("variables" :> Dict("name" :> PyStr("John")))),
                  Dict(("mobile" :> PyStr("919000000001"))
                           @@ ("variables" :> Dict("name" :> PyStr("John"))))>>)

(***************************************************************************)
(* C14.  One client is safe for concurrent use: in every interleaving of   *)
(* calls from several threads, the request of each call and its result or  *)
(* error are those of the call made alone (they depend only on its own     *)
(* arguments, the client's key and the outcome of its own request), and no *)
(* step of any call changes the client's key, base URL or timeout.         *)
(***************************************************************************)
\* The frame of thread t is the frame of its call made alone.
AsIfAlone(t) ==
    /\ pc[t] = "idle" =>
           /\ requests[t] = << >> /\ outcomes[t] = << >>
           /\ returned[t] = << >> /\ raised[t] = << >>
    /\ pc[t] = "waiting" =>
           /\ outcomes[t] = << >> /\ returned[t] = << >> /\ raised[t] = << >>
           /\ requests[t] =
                  <<CASE op[t] = "otp.send"   -> OtpSendRequest(auth_key, args[t])
                      [] op[t] = "otp.verify" -> OtpVerifyRequest(auth_key, args[t])
                      [] op[t] = "sms.send"   -> SmsSendRequest(auth_key, args[t])>>
    /\ (pc[t] = "done" /\ outcomes[t] = << >>) =>
           /\ op[t] = "otp.send"
           /\ requests[t] = << >> /\ returned[t] = << >>
           /\ Len(raised[t]) = 1 /\ raised[t][1].type = "ValueError"
    /\ (pc[t] = "done" /\ outcomes[t] # << >>) =>
           /\ Len(outcomes[t]) = 1
           /\ requests[t] =
                  <<CASE op[t] = "otp.send"   -> OtpSendRequest(auth_key, args[t])
                      [] op[t] = "otp.verify" -> OtpVerifyRequest(auth_key, args[t])
                      [] op[t] = "sms.send"   -> SmsSendRequest(auth_key, args[t])>>
           /\ [returned |-> returned[t], raised |-> raised[t]] =
                  CASE op[t] = "otp.send"   -> OtpSendHandle(outcomes[t][1])
                    [] op[t] = "otp.verify" -> OtpVerifyHandle(outcomes[t][1])
                    [] op[t] = "sms.send"   -> SmsSendHandle(outcomes[t][1])

C14_ConcurrentUseIsSafe ==
    /\ [](\A t \in Threads : AsIfAlone(t))
    /\ [][config' = config]_vars

\* While thread 1 is blocked in the request of otp.send, thread 2 has ended
\* sms.send with an authentication error.
C14_Witness ==
    /\ pc[1] = "waiting"
    /\ op[1] = "otp.send"
    /\ Len(requests[1]) = 1
    /\ pc[2] = "done"
    /\ op[2] = "sms.send"
    /\ Len(raised[2]) = 1
    /\ raised[2][1].type = "AuthenticationError"

====
